---- MODULE Spec2Model ----
(***************************************************************************)
(* Scheduler trace decoder, per-task wake-state tracker and migration      *)
(* classifier of scheduler-tracing-tools (src/graph/parser.rs and          *)
(* src/graph/mod.rs).                                                      *)
(*                                                                         *)
(* One step of the model is one iteration of the `while let Some(..) =     *)
(* reader.next_action()` loop of draw_traces: next_action reads lines      *)
(* until one has more than two tokens, get_action/get_event decode it and  *)
(* update process_state, and the loop body classifies a migrate event.     *)
(* The text of a line is abstracted to its tokens after parsing: the       *)
(* event name, the header cpu and the pids/cpus of the event body.         *)
(***************************************************************************)
EXTENDS Integers, Sequences, FiniteSets, TLC

\* ---------------------------------------------------------------- bounds
MaxPid == 2
MaxCpu == 2
MaxLines == 2
MaxWords == 3
MaxSwitchWords == 2
MaxFiles == 2
MaxTime == 2

Pids == 1..MaxPid
Cpus == 0..MaxCpu

\* ------------------------------------------------------- machine topology
\* The machine of the traces: socket 0 owns the ranges [0,0] and [3,3],
\* socket 1 owns [1,1]; cpu 2 and every cpu id above 3 are in no range.
trace_machine ==
    [cpus |-> MaxCpu + 2, sockets |-> 2, cores_per_socket |-> 1, threads_per_core |-> 2,
     numa_node_ranges |-> << << <<0, 0>>, <<3, 3>> >>, << <<1, 1>> >> >>]

\* ------------------------------------------------------------ enum Wstate
Waking(origin, target) == <<"Waking", origin, target>>
Woken == <<"Woken">>
Numa(c1, c2) == <<"Numa", c1, c2>>

\* NumaArgs.cpu is an i32; the src_cpu=/dst_cpu= tokens are drawn from the
\* cpu ids, all of them non-negative: the two lowest and the highest
NumaCpus == {0, 1, MaxCpu}

Wstate == {Waking(c, t) : c \in Cpus, t \in Cpus} \cup {Woken}
            \cup {Numa(c, t) : c \in NumaCpus, t \in NumaCpus}

\* `u != i as u32` for a u32 u below 2^31 and an i32 i: a negative i casts
\* to a value of at least 2^31, so it differs from every such u
NeAsU32(u, i) == i < 0 \/ u # i

\* Option<u32>
None == <<>>
Some(x) == <<x>>

\* ------------------------------------------------- HashMap<u32, Wstate>
HashMapNew == <<>>

contains_key(m, k) == k \in DOMAIN m

\* entry(k).or_insert(v): an existing value is kept
HashMapInsertKeep(m, k, v) ==
    [x \in (DOMAIN m) \cup {k} |-> IF x \in DOMAIN m THEN m[x] ELSE v]

HashMapRemove(m, k) == [x \in (DOMAIN m) \ {k} |-> m[x]]

HashMapInsert(m, k, v) ==
    [x \in (DOMAIN m) \cup {k} |-> IF x = k THEN v ELSE m[x]]

\* ------------------------------------------------------------- variables
VARIABLES
    lines,          \* TraceParser.lines: upper bound on the lines not yet read
    process_state,  \* TraceParser.process_state
    before,         \* process_state as it was when the line of the held
                    \* Action was read (the table itself when none is held)
    part,           \* tokens of the line handed to get_action
    action,         \* the Action next_action returned for it
    legend_group,   \* label chosen by classify_migrate_event for that Action
    status,         \* "scanning": next_action is about to be called;
                    \* "yielded": the loop body holds the Action;
                    \* "panicked": fatal abort; "eof": next_action gave None
    last_relevant,  \* per pid: kind of the last wake/fork/numa line read for it
    cpu_count,      \* TraceParser.cpu_count, None until new() has parsed it
    item,           \* what the last self.lines.next() of the text-level
                    \* specification returned
    config,         \* the Config read at startup: machine and graph options
    y_axis,         \* the y_axis table of draw_traces: cpu id -> position
    first_timestamp,\* TraceParser.first_timestamp
    last_timestamp, \* TraceParser.last_timestamp
    file,           \* how many input files main has handed to make_graph
    twin,           \* a second TraceParser, independent of the first: its
                    \* table and what get_action returned to it
    switch_events,  \* draw_traces: the switch Actions to be drawn, followed
                    \* by SpecRange only
    boundary_events \* draw_traces: per cpu, the switch Action kept at the
                    \* edge of the custom range

\* SpecText follows the text of the lines: there lines is the exact number
\* of lines left in the file, part the token vector of the line read last,
\* action the Action decoded from it, and status is "opening" until
\* TraceParser::new has run.

vars == <<lines, process_state, before, part, action, legend_group, status,
          last_relevant, cpu_count, item, config, y_axis, first_timestamp,
          last_timestamp, file, twin,
                   switch_events, boundary_events>>

\* config.machine.numa_node_ranges
numa_node_ranges == config.machine.numa_node_ranges

NoLabel == "none"
NoItem == [kind |-> "", line |-> <<>>]
NoTwin == [process_state |-> <<>>, action |-> <<>>, panicked |-> FALSE]
NoPart == [event_type |-> "", cpu |-> 0, pid |-> 0, pid2 |-> 0, cpu1 |-> 0, cpu2 |-> 0]
NoAction == [event_type |-> "", cpu |-> 0, pid |-> 0, pid2 |-> 0, cpu1 |-> 0,
             cpu2 |-> 0, hint |-> None, state |-> <<>>]

\* Events value built from the tokens of a line
Event(p, hint, state) ==
    [event_type |-> p.event_type, cpu |-> p.cpu, pid |-> p.pid, pid2 |-> p.pid2,
     cpu1 |-> p.cpu1, cpu2 |-> p.cpu2, hint |-> hint, state |-> state]

Decoded(event, states) == [event |-> event, process_state |-> states, panicked |-> FALSE]
Panic(states) == [event |-> NoAction, process_state |-> states, panicked |-> TRUE]

\* ------------------------------------------------------------- get_event
\* Every decoder takes the tokens p of the line, the header cpu
\* process_cpu and the table, and returns the event, the table after the
\* decode and whether the decode panicked.

\* the two cpus of the Waking state exchanged
sched_waking_swapped(p, process_cpu, states) ==
    Decoded(Event(p, None, <<>>),
            HashMapInsert(states, p.pid, Waking(p.cpu1, process_cpu)))

sched_waking(p, process_cpu, states) ==
    Decoded(Event(p, None, <<>>),
            HashMapInsert(states, p.pid, Waking(process_cpu, p.cpu1)))

sched_wake_idle_without_ipi(p, process_cpu, states) ==
    Decoded(Event(p, None, <<>>), states)

\* a Waking state survives the wakeup
sched_wakeup_keep(p, process_cpu, states) ==
    LET prev_cpu == IF contains_key(states, p.pid) /\ states[p.pid][1] = "Waking"
                    THEN Some(states[p.pid][2])
                    ELSE None
    IN  Decoded(Event(p, prev_cpu, <<>>), HashMapInsertKeep(states, p.pid, Woken))

\* prev_cpu taken from the target component of the Waking state
sched_wakeup_target(p, process_cpu, states) ==
    LET prev_cpu == IF contains_key(states, p.pid) /\ states[p.pid][1] = "Waking"
                    THEN Some(states[p.pid][3])
                    ELSE None
    IN  Decoded(Event(p, prev_cpu, <<>>), HashMapInsert(states, p.pid, Woken))

sched_wakeup(p, process_cpu, states) ==
    LET prev_cpu == IF contains_key(states, p.pid) /\ states[p.pid][1] = "Waking"
                    THEN Some(states[p.pid][2])
                    ELSE None
    IN  Decoded(Event(p, prev_cpu, <<>>), HashMapInsert(states, p.pid, Woken))

\* the cpu the waking came from is reported as parent_cpu
sched_wakeup_new_source(p, process_cpu, states) ==
    IF contains_key(states, p.pid) /\ states[p.pid][1] # "Waking"
    THEN Panic(states)
    ELSE LET parent_cpu == IF contains_key(states, p.pid)
                           THEN states[p.pid][2]
                           ELSE p.cpu1
         IN  Decoded(Event(p, Some(parent_cpu), <<>>),
                     HashMapInsert(states, p.pid, Woken))

sched_wakeup_new(p, process_cpu, states) ==
    IF contains_key(states, p.pid) /\ states[p.pid][1] # "Waking"
    THEN Panic(states)
    ELSE LET parent_cpu == IF contains_key(states, p.pid)
                           THEN states[p.pid][3]
                           ELSE p.cpu1
         IN  Decoded(Event(p, Some(parent_cpu), <<>>),
                     HashMapInsert(states, p.pid, Woken))

\* a matching migration consumes the Numa intent
sched_migrate_task_consume(p, process_cpu, states) ==
    LET temp  == IF contains_key(states, p.pid) THEN states[p.pid] ELSE Woken
        state == IF temp[1] = "Numa"
                    /\ (NeAsU32(p.cpu1, temp[2]) \/ NeAsU32(p.cpu2, temp[3]))
                 THEN Woken
                 ELSE temp
    IN  Decoded(Event(p, None, state),
                IF state[1] = "Numa" THEN HashMapInsert(states, p.pid, Woken)
                                     ELSE states)

sched_migrate_task(p, process_cpu, states) ==
    LET temp  == IF contains_key(states, p.pid) THEN states[p.pid] ELSE Woken
        state == IF temp[1] = "Numa"
                    /\ (NeAsU32(p.cpu1, temp[2]) \/ NeAsU32(p.cpu2, temp[3]))
                 THEN Woken
                 ELSE temp
    IN  Decoded(Event(p, None, state), states)

sched_switch(p, process_cpu, states) ==
    Decoded(Event(p, None, <<>>), states)

\* the freed pid is forgotten
sched_process_free_remove(p, process_cpu, states) ==
    Decoded(Event(p, None, <<>>), HashMapRemove(states, p.pid))

sched_process_free(p, process_cpu, states) ==
    Decoded(Event(p, None, <<>>), states)

sched_process_exec(p, process_cpu, states) ==
    Decoded(Event(p, None, <<>>), states)

\* an entry the child pid already has is kept
sched_process_fork_keep(p, process_cpu, states) ==
    Decoded(Event(p, None, <<>>),
            HashMapInsertKeep(states, p.pid2, Waking(process_cpu, process_cpu)))

sched_process_fork(p, process_cpu, states) ==
    Decoded(Event(p, None, <<>>),
            HashMapInsert(states, p.pid2, Waking(process_cpu, process_cpu)))

sched_process_wait(p, process_cpu, states) ==
    Decoded(Event(p, None, <<>>), states)

\* the exiting pid is forgotten
sched_process_exit_remove(p, process_cpu, states) ==
    Decoded(Event(p, None, <<>>), HashMapRemove(states, p.pid))

sched_process_exit(p, process_cpu, states) ==
    Decoded(Event(p, None, <<>>), states)

\* both tasks get the pair of the source
sched_swap_numa_same(p, process_cpu, states) ==
    Decoded(Event(p, None, <<>>),
            HashMapInsert(HashMapInsert(states, p.pid, Numa(p.cpu1, p.cpu2)),
                          p.pid2, Numa(p.cpu1, p.cpu2)))

sched_swap_numa(p, process_cpu, states) ==
    Decoded(Event(p, None, <<>>),
            HashMapInsert(HashMapInsert(states, p.pid, Numa(p.cpu1, p.cpu2)),
                          p.pid2, Numa(p.cpu2, p.cpu1)))

\* a failed move leaves the intent of the source in the table
sched_stick_numa_insert(p, process_cpu, states) ==
    Decoded(Event(p, None, <<>>), HashMapInsert(states, p.pid, Numa(p.cpu1, p.cpu2)))

sched_stick_numa(p, process_cpu, states) ==
    Decoded(Event(p, None, <<>>), states)

\* an entry the moved pid already has is kept
sched_move_numa_keep(p, process_cpu, states) ==
    Decoded(Event(p, None, <<>>),
            HashMapInsertKeep(states, p.pid, Numa(p.cpu1, p.cpu2)))

sched_move_numa(p, process_cpu, states) ==
    Decoded(Event(p, None, <<>>),
            HashMapInsert(states, p.pid, Numa(p.cpu1, p.cpu2)))

\* an unknown event name is fatal
NotSupportedPanic(p, process_cpu, states) == Panic(states)

NotSupported(p, process_cpu, states) ==
    Decoded([NoAction EXCEPT !.event_type = "NotSupported", !.cpu = p.cpu], states)

get_event(p, process_cpu, states, event_type) ==
    CASE event_type = "sched_waking" -> sched_waking(p, process_cpu, states)
      [] event_type = "sched_wake_idle_without_ipi" ->
                                  sched_wake_idle_without_ipi(p, process_cpu, states)
      [] event_type = "sched_wakeup" -> sched_wakeup(p, process_cpu, states)
      [] event_type = "sched_wakeup_new" -> sched_wakeup_new(p, process_cpu, states)
      [] event_type = "sched_migrate_task" -> sched_migrate_task(p, process_cpu, states)
      [] event_type = "sched_switch" -> sched_switch(p, process_cpu, states)
      [] event_type = "sched_process_free" -> sched_process_free(p, process_cpu, states)
      [] event_type = "sched_process_exec" -> sched_process_exec(p, process_cpu, states)
      [] event_type = "sched_process_fork" -> sched_process_fork(p, process_cpu, states)
      [] event_type = "sched_process_wait" -> sched_process_wait(p, process_cpu, states)
      [] event_type = "sched_process_exit" -> sched_process_exit(p, process_cpu, states)
      [] event_type = "sched_swap_numa" -> sched_swap_numa(p, process_cpu, states)
      [] event_type = "sched_stick_numa" -> sched_stick_numa(p, process_cpu, states)
      [] event_type = "sched_move_numa" -> sched_move_numa(p, process_cpu, states)
      [] OTHER -> NotSupported(p, process_cpu, states)

\* get_action: the header gives the cpu, the event name selects the decoder
get_action(p, states) == get_event(p, p.cpu, states, p.event_type)

\* ------------------------------------------------------ get_socket_order
\* the <<socket_id, range_id>> pairs whose range contains cpu
SocketMatches(cpu) ==
    {sr \in UNION {{<<s, r>> : r \in 1..Len(numa_node_ranges[s])} :
                       s \in 1..Len(numa_node_ranges)} :
        /\ cpu >= numa_node_ranges[sr[1]][sr[2]][1]
        /\ cpu <= numa_node_ranges[sr[1]][sr[2]][2]}

BadNumaRanges(cpu) == SocketMatches(cpu) = {}

\* the last match in declaration order
get_socket_order_last(cpu) ==
    LET final == CHOOSE m \in SocketMatches(cpu) :
                     \A n \in SocketMatches(cpu) :
                         m[1] > n[1] \/ (m[1] = n[1] /\ m[2] >= n[2])
    IN  <<final[1] - 1, final[2] - 1>>

\* first match in declaration order: sockets outermost, ranges innermost;
\* ids are the 0-based enumerate() indices
get_socket_order(cpu) ==
    LET first == CHOOSE m \in SocketMatches(cpu) :
                     \A n \in SocketMatches(cpu) :
                         m[1] < n[1] \/ (m[1] = n[1] /\ m[2] <= n[2])
    IN  <<first[1] - 1, first[2] - 1>>

\* -------------------------------------------------------------- get_y_axis
\* the socket_order branch of get_y_axis for one cpu of the machine
y_axis_cpu_position(machine, cpu) ==
    LET socket            == get_socket_order(cpu)[1]
        range             == get_socket_order(cpu)[2]
        cores_per_socket  == machine.cores_per_socket
        cpu_within_socket == cpu % cores_per_socket
        socket_offset     == socket * cores_per_socket * machine.threads_per_core
    IN  socket_offset + cpu_within_socket + range * cores_per_socket

\* The table cpu id -> position. Without socket_order it is the identity
\* on 0..cpu_count; with it, one entry per cpu of 0..machine.cpus, and the
\* socket lookup of a cpu in no range aborts.
get_y_axis(machine, socket_order, count) ==
    IF ~socket_order
    THEN [panicked |-> FALSE, y_axis |-> [cpu \in 0..(count - 1) |-> cpu]]
    ELSE IF \E cpu \in 0..(machine.cpus - 1) : BadNumaRanges(cpu)
         THEN [panicked |-> TRUE, y_axis |-> HashMapNew]
         ELSE [panicked |-> FALSE,
               y_axis |-> [cpu \in 0..(machine.cpus - 1) |->
                              y_axis_cpu_position(machine, cpu)]]

\* config.graph as the default configuration sets it
default_graph ==
    [socket_order |-> FALSE, sleep |-> FALSE, custom_range |-> FALSE, min |-> 0, max |-> 0]

\* the names of marker_events_object: the events add_event draws at
\* y_axis[&action.cpu]
marker_events ==
    {"sched_wakeup", "sched_wakeup_new", "sched_wake_idle_without_ipi",
     "sched_waking", "sched_process_fork"}

\* ------------------------------------------------ classify_migrate_event
\* the legend group the migration is counted and drawn under; NoLabel when
\* the function records nothing; panicked when a socket lookup aborts
Label(tag, src, dest) ==
    CASE tag = "Waking" ->
           IF src = dest THEN "on-socket<br>unblock placement"
                         ELSE "off-socket<br>unblock placement"
      [] tag = "Woken" ->
           IF src = dest THEN "on-socket<br>load balancing"
                         ELSE "off-socket<br>load balancing"
      [] tag = "Numa" -> "numa balancing"

\* a pid without entry classified as Woken, the decoder's default
classify_default_woken(act, states) ==
    IF BadNumaRanges(act.cpu1) \/ BadNumaRanges(act.cpu2)
    THEN [legend_group |-> NoLabel, panicked |-> TRUE]
    ELSE LET src  == get_socket_order(act.cpu1)[1]
             dest == get_socket_order(act.cpu2)[1]
             tag  == IF contains_key(states, act.pid) THEN states[act.pid][1]
                                                      ELSE "Woken"
         IN  [legend_group |-> Label(tag, src, dest), panicked |-> FALSE]

\* a Waking state counts only for a migration to its target cpu
classify_target_match(act, states) ==
    IF BadNumaRanges(act.cpu1) \/ BadNumaRanges(act.cpu2)
    THEN [legend_group |-> NoLabel, panicked |-> TRUE]
    ELSE LET src  == get_socket_order(act.cpu1)[1]
             dest == get_socket_order(act.cpu2)[1]
             st   == states[act.pid]
         IN  IF ~contains_key(states, act.pid)
             THEN [legend_group |-> NoLabel, panicked |-> FALSE]
             ELSE [legend_group |->
                     Label(IF st[1] = "Waking" /\ st[3] # act.cpu2 THEN "Woken"
                                                                   ELSE st[1],
                           src, dest),
                   panicked |-> FALSE]

\* on-socket only when both cpus lie in the same range of the socket
classify_same_range(act, states) ==
    IF BadNumaRanges(act.cpu1) \/ BadNumaRanges(act.cpu2)
    THEN [legend_group |-> NoLabel, panicked |-> TRUE]
    ELSE LET src  == get_socket_order(act.cpu1)
             dest == get_socket_order(act.cpu2)
             tag  == states[act.pid][1]
         IN  IF ~contains_key(states, act.pid)
             THEN [legend_group |-> NoLabel, panicked |-> FALSE]
             ELSE [legend_group |-> Label(tag, src, dest), panicked |-> FALSE]

classify_migrate_event(act, states) ==
    IF BadNumaRanges(act.cpu1) \/ BadNumaRanges(act.cpu2)
    THEN [legend_group |-> NoLabel, panicked |-> TRUE]
    ELSE LET src  == get_socket_order(act.cpu1)[1]
             dest == get_socket_order(act.cpu2)[1]
             tag  == states[act.pid][1]
         IN  IF ~contains_key(states, act.pid)
             THEN [legend_group |-> NoLabel, panicked |-> FALSE]
             ELSE [legend_group |-> Label(tag, src, dest), panicked |-> FALSE]

\* The y_axis lookups of the loop body; indexing with an absent key
\* panics. add_event indexes the table with the cpu of the line,
add_event_panics(act) ==
    act.event_type \in marker_events /\ ~contains_key(y_axis, act.cpu)

\* draw_migrate_marks with orig_cpu and dest_cpu of a migration that got a
\* label.
draw_migrate_marks_panics(act, label) ==
    /\ label # NoLabel
    /\ ~(contains_key(y_axis, act.cpu1) /\ contains_key(y_axis, act.cpu2))

\* ---------------------------------------------------------- input lines
Line(e, c, p, p2, c1, c2) ==
    [event_type |-> e, cpu |-> c, pid |-> p, pid2 |-> p2, cpu1 |-> c1, cpu2 |-> c2]

\* The lines of a trace, as tokens: header cpu, pids and cpus of the body.
\* The header cpu varies where the decoder reads it (over the two lowest
\* cpus and the highest where it is stored), a body token where a
\* decoder result depends on it; numa lines name two distinct cpus and
\* swap_numa two distinct tasks, as the kernel emits them.
WakingLines ==
    {Line("sched_waking", c, p, 0, t, 0) : c \in {0, 1, MaxCpu}, p \in Pids, t \in Cpus}
WakeIdleLines ==
    {Line("sched_wake_idle_without_ipi", c, 0, 0, c, 0) : c \in Cpus}
WakeupLines ==
    {Line("sched_wakeup", c, p, 0, c, 0) : c \in Cpus, p \in Pids}
WakeupNewLines ==
    {Line("sched_wakeup_new", 0, p, 0, t, 0) : p \in Pids, t \in Cpus}
MigrateTaskLines ==
    {Line("sched_migrate_task", 0, p, 0, o, d) : p \in Pids, o \in Cpus, d \in Cpus}
SwitchLines ==
    {Line("sched_switch", 0, p, q, 0, 0) : p \in Pids, q \in Pids}
ProcessLifetimeLines ==
    {Line(e, 0, p, 0, 0, 0) :
        e \in {"sched_process_free", "sched_process_exec",
               "sched_process_wait", "sched_process_exit"},
        p \in Pids}
ProcessForkLines ==
    {Line("sched_process_fork", c, p, q, 0, 0) :
        c \in {0, 1, MaxCpu}, p \in Pids, q \in Pids}
SwapNumaLines ==
    {Line("sched_swap_numa", 0, x[1], x[2], x[3], x[4]) :
        x \in {y \in Pids \X Pids \X NumaCpus \X NumaCpus :
                  y[1] # y[2] /\ y[3] # y[4]}}
StickNumaLines ==
    {Line("sched_stick_numa", 0, x[1], x[2], 0, 1) :
        x \in {y \in Pids \X Pids : y[1] # y[2]}}
MoveNumaLines ==
    {Line("sched_move_numa", 0, x[1], 0, x[2], x[3]) :
        x \in {y \in Pids \X NumaCpus \X NumaCpus : y[2] # y[3]}}
UnsupportedLines ==
    {Line("sched_unknown", c, 0, 0, 0, 0) : c \in Cpus}

\* migrations between all cpus the topology declares and one more
SocketCpus == 0..(MaxCpu + 1)
MigrateSocketLines ==
    {Line("sched_migrate_task", 0, p, 0, o, d) :
        p \in Pids, o \in SocketCpus, d \in SocketCpus}

\* the pids whose WakeState a line of this kind writes
Named(p) ==
    CASE p.event_type \in {"sched_waking", "sched_wakeup", "sched_wakeup_new",
                           "sched_move_numa"} -> {p.pid}
      [] p.event_type = "sched_process_fork" -> {p.pid2}
      [] p.event_type = "sched_swap_numa" -> {p.pid, p.pid2}
      [] OTHER -> {}

\* what a line of that name announces for the pids it names: a wakeup in
\* progress, a completed wakeup, or a numa move
Kind(event_type) ==
    CASE event_type \in {"sched_waking", "sched_process_fork"} -> "waking"
      [] event_type \in {"sched_wakeup", "sched_wakeup_new"} -> "wakeup"
      [] event_type \in {"sched_swap_numa", "sched_move_numa"} -> "numa"

\* ================================================================= text
\* The text of a line. A string is a sequence of characters, each a
\* one-character string, except that a word the code only matches as a
\* whole ("cpus=", an event name, the arrow of sched_switch) is one
\* character of the model. A line is the vector of its whitespace-separated
\* tokens, the result of split_whitespace().collect().

Digits == <<"0", "1", "2", "3", "4", "5", "6", "7", "8", "9">>
IsDigit(c) == \E i \in 1..Len(Digits) : Digits[i] = c
DigitValue(c) == (CHOOSE i \in 1..Len(Digits) : Digits[i] = c) - 1

\* str::split(d): the pieces between the occurrences of d
RECURSIVE split(_, _)
split(s, d) ==
    IF \A i \in 1..Len(s) : s[i] # d
    THEN <<s>>
    ELSE LET i == CHOOSE k \in 1..Len(s) : s[k] = d /\ \A j \in 1..(k - 1) : s[j] # d
         IN  <<SubSeq(s, 1, i - 1)>> \o split(SubSeq(s, i + 1, Len(s)), d)

\* [&str]::join(d)
RECURSIVE join(_, _)
join(v, d) ==
    IF v = <<>> THEN <<>>
    ELSE IF Len(v) = 1 THEN v[1]
    ELSE v[1] \o <<d>> \o join(Tail(v), d)

\* str::replace(pat, ""), for the patterns in pats
replace(s, pats) == SelectSeq(s, LAMBDA c : c \notin pats)

\* str::contains(pat)
contains(s, pat) == \E i \in 1..Len(s) : s[i] = pat

\* String::pop(): the last character is dropped
pop(s) == IF s = <<>> THEN s ELSE SubSeq(s, 1, Len(s) - 1)

\* Vec::pop() and what it leaves
last(v) == v[Len(v)]
front(v) == SubSeq(v, 1, Len(v) - 1)

RECURSIVE decimal(_)
decimal(s) == IF s = <<>> THEN 0 ELSE 10 * decimal(front(s)) + DigitValue(last(s))

\* str::parse::<u32>() and parse::<i32>() of a string without sign
parse_int(s) ==
    IF s # <<>> /\ \A i \in 1..Len(s) : IsDigit(s[i])
    THEN [is_err |-> FALSE, value |-> decimal(s)]
    ELSE [is_err |-> TRUE, value |-> 0]

\* str::parse::<f64>() of a string without sign or exponent: digits with
\* at most one point
parse_f64(s) ==
    /\ \E i \in 1..Len(s) : IsDigit(s[i])
    /\ \A i \in 1..Len(s) : IsDigit(s[i]) \/ s[i] = "."
    /\ \A i, j \in 1..Len(s) : (s[i] = "." /\ s[j] = ".") => i = j

\* part[i] of a Vec, i counted from 0, panics when i is out of bounds
InBounds(v, i) == i + 1 <= Len(v)
At(v, i) == v[i + 1]

\* ---------------------------------------------------- get_event, switch
NoBase == [command |-> <<>>, pid |-> 0]
NoEvent == [event_type |-> "", old_base |-> NoBase, state |-> <<>>, new_base |-> NoBase]
NoTextAction == [process |-> <<>>, pid |-> 0, cpu |-> 0, timestamp |-> <<>>,
                 event |-> NoEvent]
TextPanic == [panicked |-> TRUE, action |-> NoTextAction]

\* the name:pid field at part[index], widened once to part[index + 1];
\* gives the pieces of the command, the pid and the index of the token
\* that held the pid
TaskField(v, index, d) ==
    IF ~InBounds(v, index) THEN [panicked |-> TRUE]
    ELSE LET command == split(At(v, index), d)
             temp    == parse_int(last(command))
         IN  IF ~temp.is_err
             THEN [panicked |-> FALSE, command |-> front(command),
                   pid |-> temp.value, index |-> index]
             ELSE IF ~InBounds(v, index + 1) THEN [panicked |-> TRUE]
             ELSE LET wide  == split(At(v, index + 1), d)
                      again == parse_int(last(wide))
                  IN  IF again.is_err THEN [panicked |-> TRUE]
                      ELSE [panicked |-> FALSE,
                            command |-> <<At(v, index)>> \o front(wide),
                            pid |-> again.value, index |-> index + 1]

\* a [prio] or [cpu] token: brackets removed, then parsed
Bracketed(v, index) ==
    IF ~InBounds(v, index) THEN [is_err |-> TRUE, value |-> 0]
    ELSE parse_int(replace(At(v, index), {"[", "]"}))

sched_switch_text(v, orig_index) ==
    LET old == TaskField(v, orig_index, ":")
    IN  IF old.panicked \/ Bracketed(v, old.index + 1).is_err
           \/ ~InBounds(v, old.index + 2)
        THEN [panicked |-> TRUE, event |-> NoEvent]
        ELSE LET new == TaskField(v, orig_index + 4, ":")
             IN  IF new.panicked \/ Bracketed(v, new.index + 1).is_err
                 THEN [panicked |-> TRUE, event |-> NoEvent]
                 ELSE [panicked |-> FALSE,
                       event |-> [event_type |-> "SchedSwitch",
                                  old_base |-> [command |-> join(old.command, " "),
                                                pid |-> old.pid],
                                  state |-> At(v, old.index + 2),
                                  new_base |-> [command |-> join(new.command, " "),
                                                pid |-> new.pid]]]

\* a numeric token parses as 0 when it is not a number
FieldOrZero(v, index, key) ==
    IF ~InBounds(v, index) THEN [is_err |-> TRUE, value |-> 0]
    ELSE LET n == parse_int(replace(At(v, index), {key}))
         IN  [is_err |-> FALSE, value |-> n.value]

\* String::from(part[index]).replace(key, "").parse(), before the unwrap
Field(v, index, key) ==
    IF ~InBounds(v, index) THEN [is_err |-> TRUE, value |-> 0]
    ELSE parse_int(replace(At(v, index), {key}))

\* The decoders that read a run of key=number tokens: the keys in the
\* order they are read, and whether a comm= token comes first, after
\* which the index is moved on by one when the next token does not start
\* with pid=.
BodyKeys ==
    [sched_waking |->
         [comm |-> TRUE, keys |-> <<"pid=", "prio=", "target_cpu=">>],
     sched_wake_idle_without_ipi |->
         [comm |-> FALSE, keys |-> <<"cpu=">>],
     sched_migrate_task |->
         [comm |-> TRUE, keys |-> <<"pid=", "prio=", "orig_cpu=", "dest_cpu=">>],
     sched_process_free |-> [comm |-> TRUE, keys |-> <<"pid=", "prio=">>],
     sched_process_wait |-> [comm |-> TRUE, keys |-> <<"pid=", "prio=">>],
     sched_process_exit |-> [comm |-> TRUE, keys |-> <<"pid=", "prio=">>],
     sched_swap_numa |->
         [comm |-> FALSE,
          keys |-> <<"src_pid=", "src_tgid=", "src_ngid=", "src_cpu=", "src_nid=",
                     "dst_pid=", "dst_tgid=", "dst_ngid=", "dst_cpu=", "dst_nid=">>],
     sched_stick_numa |->
         [comm |-> FALSE,
          keys |-> <<"src_pid=", "src_tgid=", "src_ngid=", "src_cpu=", "src_nid=",
                     "dst_pid=", "dst_tgid=", "dst_ngid=", "dst_cpu=", "dst_nid=">>],
     sched_move_numa |->
         [comm |-> FALSE,
          keys |-> <<"pid=", "tgid=", "ngid=", "src_cpu=", "src_nid=",
                     "dst_cpu=", "dst_nid=">>]]

\* get_event on the text of a line for the names of BodyKeys: every
\* number is parsed and unwrapped
keyed_event_text(v, name, orig_index) ==
    LET b     == BodyKeys[name]
        wide  == b.comm /\ InBounds(v, orig_index + 1)
                        /\ (At(v, orig_index + 1) = <<>> \/ At(v, orig_index + 1)[1] # "pid=")
        first == IF ~b.comm THEN orig_index
                 ELSE IF wide THEN orig_index + 2 ELSE orig_index + 1
        f     == [k \in 1..Len(b.keys) |-> Field(v, first + k - 1, b.keys[k])]
    IN  IF \/ ~InBounds(v, orig_index)
           \/ b.comm /\ ~InBounds(v, orig_index + 1)
           \/ \E k \in 1..Len(b.keys) : f[k].is_err
        THEN [panicked |-> TRUE, event |-> NoEvent]
        ELSE [panicked |-> FALSE,
              event |-> [event_type |-> name,
                         command |-> IF b.comm THEN replace(At(v, orig_index), {"comm="})
                                     ELSE <<>>,
                         values |-> [k \in 1..Len(b.keys) |-> f[k].value]]]

\* the event names whose decoders read the body of the line
SupportedNames ==
    {"sched_waking", "sched_wake_idle_without_ipi", "sched_wakeup",
     "sched_wakeup_new", "sched_migrate_task", "sched_switch",
     "sched_process_free", "sched_process_exec", "sched_process_fork",
     "sched_process_wait", "sched_process_exit", "sched_swap_numa",
     "sched_stick_numa", "sched_move_numa"}

\* get_event on the text of a line, for sched_switch, for the names of
\* BodyKeys and for the names that match no arm
get_event_text(v, event_type, index) ==
    CASE event_type = <<"sched_switch">> -> sched_switch_text(v, index)
      [] \E n \in DOMAIN BodyKeys : event_type = <<n>> ->
           keyed_event_text(v, event_type[1], index)
      [] \A n \in SupportedNames : event_type # <<n>> ->
           [panicked |-> FALSE, event |-> [NoEvent EXCEPT !.event_type = "NotSupported"]]

\* ------------------------------------------------------------ get_action
get_action_text(v) ==
    LET task == TaskField(v, 0, "-")
    IN  IF task.panicked THEN TextPanic
        ELSE LET index == task.index
                 cpu   == Bracketed(v, index + 1)
             IN  IF cpu.is_err \/ ~InBounds(v, index + 2)
                    \/ ~parse_f64(pop(At(v, index + 2)))
                    \/ ~InBounds(v, index + 3)
                 THEN TextPanic
                 ELSE LET e == get_event_text(v, pop(At(v, index + 3)), index + 4)
                      IN  IF e.panicked THEN TextPanic
                          ELSE [panicked |-> FALSE,
                                action |-> [process |-> join(task.command, "-"),
                                            pid |-> task.pid,
                                            cpu |-> cpu.value,
                                            timestamp |-> pop(At(v, index + 2)),
                                            event |-> e.event]]

\* ------------------------------------------------ io::Lines and the reader
\* the items self.lines.next() returns
NoneItem == [kind |-> "None", line |-> <<>>]
ErrItem == [kind |-> "Err", line |-> <<>>]
OkItem(line) == [kind |-> "Ok", line |-> line]

\* TraceParser::new on the first item of the file
TraceParserNew(first) ==
    IF first.kind # "Ok"
    THEN [panicked |-> TRUE, cpu_count |-> None]
    ELSE IF Len(first.line) > 0 /\ contains(first.line[1], "cpus=")
         THEN LET n == parse_int(replace(first.line[1], {"cpus="}))
              IN  IF n.is_err THEN [panicked |-> TRUE, cpu_count |-> None]
                  ELSE [panicked |-> FALSE, cpu_count |-> Some(n.value)]
         ELSE [panicked |-> TRUE, cpu_count |-> None]

\* a line of two tokens is handed to get_action
next_action_two(it) ==
    IF it.kind # "Ok" THEN "None"
    ELSE IF Len(it.line) > 1 THEN "decode"
    ELSE "continue"

\* one turn of the while-let loop of next_action on the item read: the
\* loop ends with None, hands the line to get_action, or reads on
next_action_turn(it) ==
    IF it.kind # "Ok" THEN "None"
    ELSE IF Len(it.line) > 2 THEN "decode"
    ELSE "continue"

\* ------------------------------------------------------------------ Init
\* TraceParser::new after a valid header: nothing decoded, empty table
Init ==
    /\ lines = MaxLines
    /\ process_state = HashMapNew
    /\ before = HashMapNew
    /\ part = NoPart
    /\ action = NoAction
    /\ legend_group = NoLabel
    /\ status = "scanning"
    /\ last_relevant = [p \in Pids |-> "none"]
    /\ cpu_count = Some(MaxCpu + 1)
    /\ item = NoItem
    /\ config = [machine |-> trace_machine, graph |-> default_graph]
    /\ y_axis = get_y_axis(config.machine, config.graph.socket_order, MaxCpu + 1).y_axis
    /\ first_timestamp = None
    /\ last_timestamp = None
    /\ file = 1
    /\ twin = NoTwin
    /\ switch_events = <<>>
    /\ boundary_events = HashMapNew

\* --------------------------------------------------------------- actions
\* One call of next_action that reads line p, followed by the match of the
\* draw_traces loop body on the Action it returns.
Decode(p) ==
    LET r == get_action(p, process_state)
        c == IF ~r.panicked /\ r.event.event_type = "sched_migrate_task"
             THEN classify_migrate_event(r.event, r.process_state)
             ELSE [legend_group |-> NoLabel, panicked |-> FALSE]
        y == /\ ~r.panicked
             /\ \/ add_event_panics(r.event)
                \/ draw_migrate_marks_panics(r.event, c.legend_group)
    IN  /\ status = "scanning"
        /\ lines > 0
        /\ lines' = lines - 1
        /\ part' = p
        /\ process_state' = r.process_state
        /\ before' = process_state
        /\ action' = r.event
        /\ legend_group' = IF y THEN NoLabel ELSE c.legend_group
        /\ status' = IF r.panicked \/ c.panicked \/ y THEN "panicked" ELSE "yielded"
        /\ last_relevant' = [q \in Pids |-> IF q \in Named(p) THEN Kind(p.event_type)
                                            ELSE last_relevant[q]]
        /\ UNCHANGED <<cpu_count, item>>
        /\ UNCHANGED <<config, y_axis, first_timestamp, last_timestamp, file, twin,
                   switch_events, boundary_events>>

SchedWaking == \E p \in WakingLines : Decode(p)
SchedWakeIdleNoIpi == \E p \in WakeIdleLines : Decode(p)
SchedWakeup == \E p \in WakeupLines : Decode(p)
SchedWakeupNew == \E p \in WakeupNewLines : Decode(p)
SchedMigrateTask == \E p \in MigrateTaskLines : Decode(p)
SchedSwitch == \E p \in SwitchLines : Decode(p)
SchedProcessLifetime == \E p \in ProcessLifetimeLines : Decode(p)
SchedProcessFork == \E p \in ProcessForkLines : Decode(p)
SchedSwapNuma == \E p \in SwapNumaLines : Decode(p)
SchedStickNuma == \E p \in StickNumaLines : Decode(p)
SchedMoveNuma == \E p \in MoveNumaLines : Decode(p)
Unsupported == \E p \in UnsupportedLines : Decode(p)

\* every call of next_action starts from a fresh table
EndIterationReset ==
    /\ status = "yielded"
    /\ status' = "scanning"
    /\ part' = NoPart
    /\ action' = NoAction
    /\ legend_group' = NoLabel
    /\ process_state' = HashMapNew
    /\ before' = HashMapNew
    /\ UNCHANGED <<lines, last_relevant, cpu_count, item>>
    /\ UNCHANGED <<config, y_axis, first_timestamp, last_timestamp, file, twin,
                   switch_events, boundary_events>>

\* end of the loop body: the Action and the borrowed snapshot are dropped
\* and the loop condition calls next_action again
EndIteration ==
    /\ status = "yielded"
    /\ status' = "scanning"
    /\ part' = NoPart
    /\ action' = NoAction
    /\ legend_group' = NoLabel
    /\ before' = process_state
    /\ UNCHANGED <<lines, process_state, last_relevant, cpu_count, item>>
    /\ UNCHANGED <<config, y_axis, first_timestamp, last_timestamp, file, twin,
                   switch_events, boundary_events>>

\* next_action finds no further line: None, the loop ends
EndOfInput ==
    /\ status = "scanning"
    /\ status' = "eof"
    /\ lines' = 0
    /\ UNCHANGED <<process_state, before, part, action, legend_group, last_relevant,
                   cpu_count, item>>
    /\ UNCHANGED <<config, y_axis, first_timestamp, last_timestamp, file, twin,
                   switch_events, boundary_events>>

Next ==
    \/ SchedWaking
    \/ SchedWakeIdleNoIpi
    \/ SchedWakeup
    \/ SchedWakeupNew
    \/ SchedMigrateTask
    \/ SchedSwitch
    \/ SchedProcessLifetime
    \/ SchedProcessFork
    \/ SchedSwapNuma
    \/ SchedStickNuma
    \/ SchedMoveNuma
    \/ Unsupported
    \/ EndIteration
    \/ EndOfInput

Spec == Init /\ [][Next]_vars

\* Traces made of wake-path lines only (waking, wakeup, wakeup_new,
\* process_fork) and migrations, one line longer than those of Spec.
InitWake ==
    /\ lines = MaxLines + 1
    /\ process_state = HashMapNew
    /\ before = HashMapNew
    /\ part = NoPart
    /\ action = NoAction
    /\ legend_group = NoLabel
    /\ status = "scanning"
    /\ last_relevant = [p \in Pids |-> "none"]
    /\ cpu_count = Some(MaxCpu + 1)
    /\ item = NoItem
    /\ config = [machine |-> trace_machine, graph |-> default_graph]
    /\ y_axis = get_y_axis(config.machine, config.graph.socket_order, MaxCpu + 1).y_axis
    /\ first_timestamp = None
    /\ last_timestamp = None
    /\ file = 1
    /\ twin = NoTwin
    /\ switch_events = <<>>
    /\ boundary_events = HashMapNew

NextWake ==
    \/ SchedWaking
    \/ SchedWakeup
    \/ SchedWakeupNew
    \/ SchedProcessFork
    \/ SchedMigrateTask
    \/ EndIteration
    \/ EndOfInput

SpecWake == InitWake /\ [][NextWake]_vars

\* Traces of wakings, wakeups and migrations between the cpus of
\* SocketCpus, which reach both ranges of socket 0.
SchedMigrateSocket == \E p \in MigrateSocketLines : Decode(p)

NextSocket ==
    \/ SchedWaking
    \/ SchedWakeup
    \/ SchedMigrateSocket
    \/ EndIteration
    \/ EndOfInput

\* the header of these traces counts one cpu more
InitSocket ==
    /\ lines = MaxLines
    /\ process_state = HashMapNew
    /\ before = HashMapNew
    /\ part = NoPart
    /\ action = NoAction
    /\ legend_group = NoLabel
    /\ status = "scanning"
    /\ last_relevant = [p \in Pids |-> "none"]
    /\ cpu_count = Some(MaxCpu + 2)
    /\ item = NoItem
    /\ config = [machine |-> trace_machine, graph |-> default_graph]
    /\ y_axis = get_y_axis(config.machine, config.graph.socket_order, MaxCpu + 2).y_axis
    /\ first_timestamp = None
    /\ last_timestamp = None
    /\ file = 1
    /\ twin = NoTwin
    /\ switch_events = <<>>
    /\ boundary_events = HashMapNew

SpecSocket == InitSocket /\ [][NextSocket]_vars

\* ------------------------------------------------------- the text level
\* n in decimal, for n below 10
Str(n) == <<Digits[n + 1]>>

\* words of a command name, without and with the '-' of the header field
Words == {<<"a">>, <<"a", "-", "b">>}
Commands == UNION {[1..n -> Words] : n \in 1..MaxWords}

\* words of a command name, without and with the ':' of the switch fields
SwitchWords == {<<"a">>, <<"k", ":", "1">>}
SwitchCommands == UNION {[1..n -> SwitchWords] : n \in 1..MaxSwitchWords}

TimestampToken == <<"1", ".", "5", ":">>
PrioToken == <<"[", "1", "2", "0", "]">>

\* "<command>-<pid> [<cpu>] <ts>: <event>: <body>", split on whitespace
EventLine(command, pid, cpu, event, body) ==
    front(command) \o <<last(command) \o <<"-">> \o Str(pid)>>
        \o << <<"[">> \o Str(cpu) \o <<"]">>, TimestampToken, <<event, ":">> >>
        \o body

\* "<old>:<pid> [<prio>] <state> ==> <new>:<pid> [<prio>]"
SwitchBody(old, old_pid, new, new_pid) ==
    front(old) \o <<last(old) \o <<":">> \o Str(old_pid)>>
        \o <<PrioToken, <<"S">>, <<"==>">> >>
        \o front(new) \o <<last(new) \o <<":">> \o Str(new_pid)>>
        \o <<PrioToken>>

UnknownTextLines ==
    {EventLine(c, p, n, "sched_unknown", <<>>) : c \in Commands, p \in Pids, n \in Cpus}
SwitchTextLines ==
    {EventLine(<< <<"a">> >>, 1, 0, "sched_switch", SwitchBody(x[1], x[2], x[3], x[4])) :
        x \in SwitchCommands \X Pids \X SwitchCommands \X Pids}
\* an event line cut after its timestamp
TruncatedLines ==
    {SubSeq(EventLine(<< <<"a">> >>, p, 0, "sched_unknown", <<>>), 1, 3) : p \in Pids}
\* Wakings, migrations and NUMA moves, the command of one and of two
\* words: "comm=<words> pid=<n> prio=<n> ..." or "pid=<n> tgid=<n> ...".
\* good: every number is one digit. garbled: these lines and switches with
\* one token that must hold a number garbled (a letter, nothing, or a
\* digit and a letter where the number should stand): the pid, the cpu or
\* the timestamp of the header, one number of the body, a pid or a
\* priority of the switch.
KeyedLines ==
    LET names   == {"sched_waking", "sched_migrate_task", "sched_move_numa"}
        comms   == {<< <<"comm=", "a">> >>, << <<"comm=", "a">>, <<"b">> >>}
        garbles == {<<"x">>, <<>>, <<"1", "x">>}
        one     == <<"1">>
        ts      == <<"1", ".", "5">>
        keys(n) == BodyKeys[n].keys
        body(n, comm, vals) ==
            (IF BodyKeys[n].comm THEN comm ELSE <<>>)
                \o [k \in 1..Len(keys(n)) |-> <<keys(n)[k]>> \o vals[k]]
        header(pid, cpu, t, n, b) ==
            << <<"a", "-">> \o pid, <<"[">> \o cpu \o <<"]">>, t \o <<":">>,
               <<n, ":">> >> \o b
        task(pid, prio) == << <<"a", ":">> \o pid, <<"[">> \o prio \o <<"]">> >>
        switch(t) == task(t[1], t[2]) \o << <<"S">>, <<"==>">> >> \o task(t[3], t[4])
    IN  [good |->
             {header(one, <<"0">>, ts, n, body(n, c, [k \in 1..Len(keys(n)) |-> Str(p)])) :
                  n \in names, c \in comms, p \in Pids},
         garbled |->
             {header(h[1], h[2], h[3], n,
                     body(n, << <<"comm=", "a">> >>, [k \in 1..Len(keys(n)) |-> one])) :
                  n \in names,
                  h \in UNION {{<<g, one, ts>>, <<one, g, ts>>, <<one, one, g>>} :
                                g \in garbles}
                        \cup {<<one, one, <<"1", ".">> \o g>> : g \in garbles \ {<<>>}}}
             \cup
             UNION {{header(one, one, ts, n,
                            body(n, c, [k \in 1..Len(keys(n)) |-> IF k = i THEN g ELSE one])) :
                         c \in comms, g \in garbles, i \in 1..Len(keys(n))} :
                    n \in names}
             \cup
             {header(one, one, ts, "sched_switch", switch(t)) :
                  t \in UNION {{<<g, one, one, one>>, <<one, g, one, one>>,
                                 <<one, one, g, one>>, <<one, one, one, g>>} :
                                g \in garbles}}]

\* blank line, one token, two tokens
ShortLines == {<<>>, << <<"a">> >>, << <<"a">>, <<"b">> >>}

\* first tokens of a first line, and first lines of one or two tokens
HeaderAtoms == {"cpus=", "4", "foo="}
HeaderTokens == UNION {[1..n -> HeaderAtoms] : n \in 1..2}
HeaderLines == {<<>>} \cup {<<t>> : t \in HeaderTokens}
                   \cup {<<t, <<"x">> >> : t \in HeaderTokens}

\* a file of up to MaxLines + 1 lines is opened
InitText ==
    /\ lines \in 0..(MaxLines + 1)
    /\ process_state = HashMapNew
    /\ before = HashMapNew
    /\ part = <<>>
    /\ action = NoTextAction
    /\ legend_group = NoLabel
    /\ status = "opening"
    /\ last_relevant = [p \in Pids |-> "none"]
    /\ cpu_count = None
    /\ item = NoItem
    /\ config = [machine |-> trace_machine, graph |-> default_graph]
    /\ y_axis = HashMapNew
    /\ first_timestamp = None
    /\ last_timestamp = None
    /\ file = 1
    /\ twin = NoTwin
    /\ switch_events = <<>>
    /\ boundary_events = HashMapNew

\* TraceParser::new: the first lines.next() and the header test
Open(it) ==
    LET r == TraceParserNew(it)
    IN  /\ status = "opening"
        /\ (it = NoneItem) <=> (lines = 0)
        /\ lines' = IF it = NoneItem THEN 0 ELSE lines - 1
        /\ item' = it
        /\ part' = it.line
        /\ cpu_count' = r.cpu_count
        /\ status' = IF r.panicked THEN "panicked" ELSE "scanning"
        /\ UNCHANGED <<process_state, before, action, legend_group, last_relevant>>
        /\ UNCHANGED <<config, y_axis, first_timestamp, last_timestamp, file, twin,
                   switch_events, boundary_events>>

\* One turn of the loop of next_action: lines.next() gives it; the line
\* is skipped, or get_action decodes it and next_action returns, or the
\* loop ends and next_action returns None. A caller may call next_action
\* again after None, as the loop of draw_traces does when the loop of
\* find_sleep has ended on None.
Read(it) ==
    LET turn == next_action_turn(it)
        r    == get_action_text(it.line)
    IN  /\ status \in {"scanning", "eof"}
        /\ (it = NoneItem) <=> (lines = 0)
        /\ lines' = IF it = NoneItem THEN 0 ELSE lines - 1
        /\ item' = it
        /\ part' = IF turn = "None" THEN <<>> ELSE it.line
        /\ action' = IF turn = "decode" THEN r.action ELSE NoTextAction
        /\ status' = CASE turn = "None" -> "eof"
                       [] turn = "continue" -> "scanning"
                       [] turn = "decode" -> IF r.panicked THEN "panicked" ELSE "yielded"
        /\ UNCHANGED <<process_state, before, legend_group, last_relevant, cpu_count>>
        /\ UNCHANGED <<config, y_axis, first_timestamp, last_timestamp, file, twin,
                   switch_events, boundary_events>>

OpenAbsent == Open(NoneItem)
OpenUnreadable == Open(ErrItem)
OpenHeader == \E l \in HeaderLines : Open(OkItem(l))
ReadShort == \E l \in ShortLines : Read(OkItem(l))
ReadTruncated == \E l \in TruncatedLines : Read(OkItem(l))
ReadUnknown == \E l \in UnknownTextLines : Read(OkItem(l))
ReadSwitch == \E l \in SwitchTextLines : Read(OkItem(l))
ReadKeyed == \E l \in KeyedLines.good \cup KeyedLines.garbled : Read(OkItem(l))
ReadUnreadable == Read(ErrItem)
ReadEnd == Read(NoneItem)

\* end of the loop body of draw_traces for an Action of the text level
TextEndIteration ==
    /\ status = "yielded"
    /\ status' = "scanning"
    /\ part' = <<>>
    /\ action' = NoTextAction
    /\ item' = NoItem
    /\ UNCHANGED <<lines, process_state, before, legend_group, last_relevant, cpu_count>>
    /\ UNCHANGED <<config, y_axis, first_timestamp, last_timestamp, file, twin,
                   switch_events, boundary_events>>

NextText ==
    \/ OpenAbsent
    \/ OpenUnreadable
    \/ OpenHeader
    \/ ReadShort
    \/ ReadTruncated
    \/ ReadUnknown
    \/ ReadSwitch
    \/ ReadKeyed
    \/ ReadUnreadable
    \/ ReadEnd
    \/ TextEndIteration

SpecText == InitText /\ [][NextText]_vars

\* ------------------------------------------------------------ the layout
\* Machines of a configuration file: up to two sockets of up to two ranges
\* each, a range being one cpu id or two adjacent ones up to TopCpu, in any
\* order and overlapping or not; one or two cores per socket and threads
\* per core; cpus as many as the ids up to TopCpu or one less.
TopCpu == MaxCpu + 1
Machines ==
    LET Ranges == {r \in (0..TopCpu) \X (0..TopCpu) : r[1] <= r[2] /\ r[2] <= r[1] + 1}
        SocketRanges == UNION {[1..n -> Ranges] : n \in 1..2}
        NumaNodeRanges == UNION {[1..n -> SocketRanges] : n \in 1..2}
    IN  {[cpus |-> m[1], sockets |-> Len(m[4]), cores_per_socket |-> m[2],
          threads_per_core |-> m[3], numa_node_ranges |-> m[4]] :
            m \in {TopCpu, TopCpu + 1} \X (1..2) \X (1..2) \X NumaNodeRanges}

\* draw_traces after TraceParser::new has read a header of TopCpu + 1
\* cpus, with socket_order set or not
InitLayout ==
    /\ lines = MaxLines
    /\ process_state = HashMapNew
    /\ before = HashMapNew
    /\ part = NoPart
    /\ action = NoAction
    /\ legend_group = NoLabel
    /\ status = "layout"
    /\ last_relevant = [p \in Pids |-> "none"]
    /\ cpu_count = Some(TopCpu + 1)
    /\ item = NoItem
    /\ config \in {[machine |-> m, graph |-> [default_graph EXCEPT !.socket_order = b]] :
                       m \in Machines, b \in BOOLEAN}
    /\ y_axis = HashMapNew
    /\ first_timestamp = None
    /\ last_timestamp = None
    /\ file = 1
    /\ twin = NoTwin
    /\ switch_events = <<>>
    /\ boundary_events = HashMapNew

\* let y_axis = get_y_axis(&config.machine, options.socket_order,
\* reader.cpu_count)
GetYAxis ==
    LET r == get_y_axis(config.machine, config.graph.socket_order, cpu_count[1])
    IN  /\ status = "layout"
        /\ y_axis' = r.y_axis
        /\ status' = IF r.panicked THEN "panicked" ELSE "scanning"
        /\ UNCHANGED <<lines, process_state, before, part, action, legend_group,
                       last_relevant, cpu_count, item, config, first_timestamp,
                       last_timestamp, file, twin,
                   switch_events, boundary_events>>

NextLayout == GetYAxis

SpecLayout == InitLayout /\ [][NextLayout]_vars

\* ---------------------------------------------------------- several files
\* main hands its arguments to make_graph one after the other; each call
\* runs data_graph and draw_traces on one file. The traces are made of
\* wakings, wakeups and migrations and have the same header.

\* the parser of the file before goes on reading the next file
NextFileKeep ==
    /\ status = "eof"
    /\ file < MaxFiles
    /\ file' = file + 1
    /\ lines' = MaxLines
    /\ before' = process_state
    /\ part' = NoPart
    /\ action' = NoAction
    /\ legend_group' = NoLabel
    /\ status' = "scanning"
    /\ last_relevant' = [p \in Pids |-> "none"]
    /\ UNCHANGED <<process_state, cpu_count, item, config, y_axis, first_timestamp,
                   last_timestamp, twin, switch_events, boundary_events>>

\* The scan of a file has ended and data_graph has returned; the loop of
\* main calls make_graph on the next argument, and draw_traces builds a new
\* parser for it: TraceParser::new reads the header and starts from
\* HashMap::new().
NextFile ==
    /\ status = "eof"
    /\ file < MaxFiles
    /\ file' = file + 1
    /\ lines' = MaxLines
    /\ process_state' = HashMapNew
    /\ before' = HashMapNew
    /\ part' = NoPart
    /\ action' = NoAction
    /\ legend_group' = NoLabel
    /\ status' = "scanning"
    /\ last_relevant' = [p \in Pids |-> "none"]
    /\ UNCHANGED <<cpu_count, item, config, y_axis, first_timestamp, last_timestamp,
                   twin, switch_events, boundary_events>>

NextFiles ==
    \/ SchedWaking
    \/ SchedWakeup
    \/ SchedMigrateTask
    \/ EndIteration
    \/ EndOfInput
    \/ NextFile

SpecFiles == Init /\ [][NextFiles]_vars

\* ------------------------------------------------------------ two trackers
\* Two TraceParsers that do not share their tables. Each table is empty or
\* holds the one state that a waking, a wakeup or a numa line left.
TablesHeld ==
    {HashMapNew} \cup
    {HashMapInsert(HashMapNew, p, w) : p \in Pids, w \in {Waking(0, 1), Woken, Numa(0, 1)}}

InitTwice ==
    /\ lines = 1
    /\ process_state \in TablesHeld
    /\ before = process_state
    /\ part = NoPart
    /\ action = NoAction
    /\ legend_group = NoLabel
    /\ status = "scanning"
    /\ last_relevant = [p \in Pids |-> "none"]
    /\ cpu_count = Some(MaxCpu + 1)
    /\ item = NoItem
    /\ config = [machine |-> trace_machine, graph |-> default_graph]
    /\ y_axis = get_y_axis(config.machine, config.graph.socket_order, MaxCpu + 1).y_axis
    /\ first_timestamp = None
    /\ last_timestamp = None
    /\ file = 1
    /\ twin \in {[NoTwin EXCEPT !.process_state = m] : m \in TablesHeld}
    /\ switch_events = <<>>
    /\ boundary_events = HashMapNew

\* get_action on the tokens p of one line, once with the table of each
\* parser
DecodeTwice(p) ==
    LET r == get_action(p, process_state)
        t == get_action(p, twin.process_state)
    IN  /\ status = "scanning"
        /\ lines > 0
        /\ lines' = lines - 1
        /\ part' = p
        /\ process_state' = r.process_state
        /\ action' = r.event
        /\ status' = IF r.panicked THEN "panicked" ELSE "yielded"
        /\ twin' = [process_state |-> t.process_state, action |-> t.event,
                    panicked |-> t.panicked]
        /\ UNCHANGED <<before, legend_group, last_relevant, cpu_count, item, config,
                       y_axis, first_timestamp, last_timestamp, file,
                       switch_events, boundary_events>>

\* the line is a waking, a wakeup, a wakeup_new or a migrate_task
NextTwice ==
    \E p \in WakingLines \cup WakeupLines \cup WakeupNewLines \cup MigrateTaskLines :
        DecodeTwice(p)

SpecTwice == InitTwice /\ [][NextTwice]_vars

\* ------------------------------------------------------------- timestamps
\* Exits and switches of a sleep command and of another one, with the
\* timestamp of the line, in any order of time.
CursorLines ==
    {[timestamp |-> t, command |-> c] @@ Line(e, 0, 1, 0, 0, 0) :
        t \in 1..MaxTime, c \in {"sleep", "a"},
        e \in {"sched_process_exit", "sched_switch"}}

\* What next_action does with the timestamp of the Action it returns.
\* draw_traces, find_sleep and data_graph use TraceParser.first_timestamp,
\* TraceParser.last_timestamp and a third component of the value of
\* next_action; the parser they were written against is not in the source
\* tree, so this follows the design document: the first Action sets
\* first_timestamp, every Action sets last_timestamp, and first_timestamp
\* is returned with the Action.
next_action_timestamps(first, timestamp) ==
    [first_timestamp |-> IF first = None THEN Some(timestamp) ELSE first,
     last_timestamp |-> Some(timestamp)]

\* the exit of any command is taken for that of sleep
find_sleep_any_exit(act, first) ==
    IF act.event.event_type = "sched_process_exit"
    THEN [first_timestamp |-> Some(act.timestamp), break |-> TRUE]
    ELSE [first_timestamp |-> first, break |-> FALSE]

\* the body of the loop of find_sleep on the Action act: the exit of a
\* sleep command becomes the start of the plot and ends the loop
find_sleep(act, first) ==
    IF act.event.event_type = "sched_process_exit" /\ act.command = "sleep"
    THEN [first_timestamp |-> Some(act.timestamp), break |-> TRUE]
    ELSE [first_timestamp |-> first, break |-> FALSE]

\* draw_traces has built the parser and the y_axis table and calls
\* find_sleep, which loops only when graph.sleep is set
InitCursor ==
    /\ lines = MaxLines + 1
    /\ process_state = HashMapNew
    /\ before = HashMapNew
    /\ part = NoPart
    /\ action = NoAction
    /\ legend_group = NoLabel
    /\ config \in {[machine |-> trace_machine, graph |-> [default_graph EXCEPT !.sleep = b]] :
                       b \in BOOLEAN}
    /\ status = IF config.graph.sleep THEN "finding" ELSE "scanning"
    /\ last_relevant = [p \in Pids |-> "none"]
    /\ cpu_count = Some(MaxCpu + 1)
    /\ item = NoItem
    /\ y_axis = get_y_axis(config.machine, config.graph.socket_order, MaxCpu + 1).y_axis
    /\ first_timestamp = None
    /\ last_timestamp = None
    /\ file = 1
    /\ twin = NoTwin
    /\ switch_events = <<>>
    /\ boundary_events = HashMapNew

\* One call of next_action that reads line p, in the loop of find_sleep
\* (finding) or in the loop of draw_traces, and the body of that loop; the
\* body of draw_traces stores a switch and ignores an exit.
Yield(p, finding) ==
    LET r   == get_action(p, process_state)
        t   == next_action_timestamps(first_timestamp, p.timestamp)
        act == [event |-> r.event, timestamp |-> p.timestamp, command |-> p.command,
                start_time |-> t.first_timestamp]
        f   == find_sleep(act, t.first_timestamp)
    IN  /\ status = IF finding THEN "finding" ELSE "scanning"
        /\ lines > 0
        /\ lines' = lines - 1
        /\ part' = p
        /\ process_state' = r.process_state
        /\ before' = process_state
        /\ action' = act
        /\ last_timestamp' = t.last_timestamp
        /\ first_timestamp' = IF finding THEN f.first_timestamp ELSE t.first_timestamp
        /\ status' = IF finding /\ ~f.break THEN "finding" ELSE "scanning"
        /\ UNCHANGED <<legend_group, last_relevant, cpu_count, item, config, y_axis,
                       file, twin,
                   switch_events, boundary_events>>

FindSleep == \E p \in CursorLines : Yield(p, TRUE)
DrawNext == \E p \in CursorLines : Yield(p, FALSE)

\* next_action returns None to find_sleep, no sleep command having exited,
\* and then to the loop of draw_traces
FindSleepNone ==
    /\ status = "finding"
    /\ status' = "eof"
    /\ lines' = 0
    /\ UNCHANGED <<process_state, before, part, action, legend_group, last_relevant,
                   cpu_count, item, config, y_axis, first_timestamp, last_timestamp,
                   file, twin,
                   switch_events, boundary_events>>

NextCursor ==
    \/ FindSleep
    \/ FindSleepNone
    \/ DrawNext
    \/ EndOfInput

SpecCursor == InitCursor /\ [][NextCursor]_vars

\* ------------------------------------------------------- the custom range
\* Lines in the order of their timestamps, from 0 to MaxTime: wakings,
\* wakeups and migrations of one task between cpus 0 and 1, the exit of a
\* sleep command and of another one on cpu 0, switches on cpus 0 and 1.
RangeLines ==
    {[timestamp |-> t, command |-> "a"] @@ l :
        t \in 0..MaxTime,
        l \in {Line("sched_waking", 0, 1, 0, 1, 0), Line("sched_wakeup", 1, 1, 0, 1, 0),
               Line("sched_migrate_task", 0, 1, 0, 0, 1), Line("sched_process_exit", 0, 1, 0, 0, 0),
               Line("sched_switch", 0, 1, 1, 0, 0), Line("sched_switch", 1, 1, 1, 0, 0)}}
    \cup {[timestamp |-> t, command |-> "sleep"] @@ Line("sched_process_exit", 0, 1, 0, 0, 0) :
              t \in 0..MaxTime}

\* where the Action of line p falls for the loop of draw_traces, given the
\* start_time returned with it: before min, after max, or in the range
custom_range_position(p, start_time) ==
    IF ~config.graph.custom_range THEN "in"
    ELSE IF p.timestamp - start_time[1] < config.graph.min THEN "early"
    ELSE IF p.timestamp - start_time[1] > config.graph.max THEN "late"
    ELSE "in"

\* a trace of two cpus is opened with a custom range of the one instant 1
\* after the start, with and without the search for sleep
InitRange ==
    /\ lines = MaxLines + 1
    /\ process_state = HashMapNew
    /\ before = HashMapNew
    /\ part = NoPart
    /\ action = NoAction
    /\ legend_group = NoLabel
    /\ config \in {[machine |-> trace_machine,
                     graph |-> [default_graph EXCEPT !.sleep = b, !.custom_range = TRUE,
                                                     !.min = 1, !.max = 1]] :
                       b \in BOOLEAN}
    /\ status = IF config.graph.sleep THEN "finding" ELSE "scanning"
    /\ last_relevant = [p \in Pids |-> "none"]
    /\ cpu_count = Some(2)
    /\ item = NoItem
    /\ y_axis = get_y_axis(config.machine, config.graph.socket_order, 2).y_axis
    /\ first_timestamp = None
    /\ last_timestamp = None
    /\ file = 1
    /\ twin = NoTwin
    /\ switch_events = <<>>
    /\ boundary_events = HashMapNew

\* One call of next_action that reads line p and returns r, the result of
\* get_action, in the loop of find_sleep (finding) or in the loop of
\* draw_traces, and the body of that loop: the status is "yielded" when the
\* Action reaches the match of draw_traces, and stays as it was when the
\* loop goes on to the next call at once. boundary_events.drain() yields
\* the Actions kept in an order the HashMap chooses.
Range(p, finding, r) ==
    LET t     == next_action_timestamps(first_timestamp, p.timestamp)
        act   == [event |-> r.event, timestamp |-> p.timestamp, command |-> p.command,
                  start_time |-> t.first_timestamp]
        f     == find_sleep(act, t.first_timestamp)
        pos   == custom_range_position(p, t.first_timestamp)
        shown == ~finding /\ ~r.panicked /\ pos = "in"
        switch == ~r.panicked /\ r.event.event_type = "sched_switch"
        full  == Cardinality(DOMAIN boundary_events) >= cpu_count[1]
        c     == IF shown /\ r.event.event_type = "sched_migrate_task"
                 THEN classify_migrate_event(r.event, r.process_state)
                 ELSE [legend_group |-> NoLabel, panicked |-> FALSE]
        y     == shown /\ (add_event_panics(r.event)
                              \/ draw_migrate_marks_panics(r.event, c.legend_group))
        stop  == r.panicked \/ c.panicked \/ y
        n     == Cardinality(DOMAIN boundary_events)
        drains == {[i \in 1..n |-> boundary_events[o[i]]] :
                      o \in {g \in [1..n -> DOMAIN boundary_events] :
                                \A i, j \in 1..n : g[i] = g[j] => i = j}}
    IN  /\ status = IF finding THEN "finding" ELSE "scanning"
        /\ lines > 0
        /\ last_timestamp # None => p.timestamp >= last_timestamp[1]
        /\ lines' = lines - 1
        /\ part' = p
        /\ process_state' = r.process_state
        /\ before' = process_state
        /\ action' = act
        /\ legend_group' = IF stop THEN NoLabel ELSE c.legend_group
        /\ last_relevant' = [q \in Pids |-> IF q \in Named(p) THEN Kind(p.event_type)
                                            ELSE last_relevant[q]]
        /\ last_timestamp' = t.last_timestamp
        /\ first_timestamp' = IF finding THEN f.first_timestamp ELSE t.first_timestamp
        /\ \E d \in drains :
              CASE finding \/ stop ->
                     /\ UNCHANGED <<switch_events, boundary_events>>
                     /\ status' = IF stop THEN "panicked"
                                   ELSE IF f.break THEN "scanning" ELSE "finding"
                [] ~finding /\ ~stop /\ pos = "early" ->
                     /\ boundary_events' = IF switch
                                            THEN HashMapInsert(boundary_events, p.cpu, act)
                                            ELSE boundary_events
                     /\ UNCHANGED switch_events
                     /\ status' = "scanning"
                [] ~finding /\ ~stop /\ pos = "late" /\ ~full ->
                     /\ boundary_events' =
                            IF switch /\ ~contains_key(boundary_events, p.cpu)
                            THEN HashMapInsert(boundary_events, p.cpu, act)
                            ELSE boundary_events
                     /\ UNCHANGED switch_events
                     /\ status' = "scanning"
                [] ~finding /\ ~stop /\ pos = "late" /\ full ->
                     /\ boundary_events' = HashMapNew
                     /\ switch_events' = switch_events \o d
                     /\ status' = "eof"
                [] ~finding /\ ~stop /\ pos = "in" /\ switch ->
                     /\ boundary_events' = HashMapNew
                     /\ switch_events' = switch_events \o d \o <<act>>
                     /\ status' = "yielded"
                [] ~finding /\ ~stop /\ pos = "in" /\ ~switch ->
                     /\ UNCHANGED <<switch_events, boundary_events>>
                     /\ status' = "yielded"
        /\ UNCHANGED <<cpu_count, item, config, y_axis, file, twin>>

FindSleepRange == \E p \in RangeLines : Range(p, TRUE, get_action(p, process_state))

\* the table follows the lines that are shown only
DrawRangeUntracked ==
    \E p \in RangeLines :
        LET r == get_action(p, process_state)
            t == next_action_timestamps(first_timestamp, p.timestamp)
        IN  Range(p, FALSE,
                  IF custom_range_position(p, t.first_timestamp) = "in" THEN r
                  ELSE [r EXCEPT !.process_state = process_state])

DrawRange == \E p \in RangeLines : Range(p, FALSE, get_action(p, process_state))

NextRange ==
    \/ FindSleepRange
    \/ FindSleepNone
    \/ DrawRange
    \/ EndIteration
    \/ EndOfInput

SpecRange == InitRange /\ [][NextRange]_vars

\* ================================================================ claims
UnblockPlacement == {"on-socket<br>unblock placement", "off-socket<br>unblock placement"}
LoadBalancing == {"on-socket<br>load balancing", "off-socket<br>load balancing"}
NumaBalancing == {"numa balancing"}
CausalLabels == UnblockPlacement \cup LoadBalancing \cup NumaBalancing

\* a migrate_task line has been read (the scan may have aborted on it)
MigrateRead == part.event_type = "sched_migrate_task"
\* ... and the loop body holds its classification
MigrateClassified == MigrateRead /\ status = "yielded"

InTopology(cpu) == ~BadNumaRanges(cpu)

\* C1: a migrate_task of pid p is classified by the state the last
\* wake/fork line read for p left: after waking(p) or process_fork(p) it is
\* unblock placement, after wakeup(p) or wakeup_new(p) it is load balancing
\* (so waking, wakeup, migrate gives load balancing and waking, migrate,
\* wakeup gives unblock placement), and with no such line it has no label.
C1_OrderSensitive ==
    MigrateClassified =>
        /\ last_relevant[part.pid] = "waking" => legend_group \in UnblockPlacement
        /\ last_relevant[part.pid] = "wakeup" => legend_group \in LoadBalancing
        /\ last_relevant[part.pid] = "none" => legend_group = NoLabel

\* three lines were read, the last a migrate_task of a pid whose last wake
\* line was a wakeup, and it is load balancing
C1_Witness ==
    /\ MigrateClassified
    /\ lines = MaxLines - 2
    /\ contains_key(process_state, part.pid)
    /\ process_state[part.pid] = Woken
    /\ last_relevant[part.pid] = "wakeup"
    /\ legend_group = "off-socket<br>load balancing"

\* C2 (as claimed): under a Numa(src, dst) state the migration is numa
\* balancing iff (orig_cpu, dest_cpu) = (src, dst), else load balancing.
C2_StaleNumaIsLoadBalancing ==
    (MigrateClassified /\ contains_key(process_state, part.pid)
        /\ process_state[part.pid][1] = "Numa") =>
        IF part.cpu1 = process_state[part.pid][2] /\ part.cpu2 = process_state[part.pid][3]
        THEN legend_group = "numa balancing"
        ELSE legend_group \in LoadBalancing

C4_FamilyByState ==
    (MigrateRead /\ contains_key(process_state, part.pid)
        /\ process_state[part.pid][1] \in {"Waking", "Woken"}) =>
        \/ /\ status = "yielded"
           /\ InTopology(part.cpu1) /\ InTopology(part.cpu2)
           /\ process_state[part.pid][1] = "Waking" => legend_group \in UnblockPlacement
           /\ process_state[part.pid][1] = "Woken" => legend_group \in LoadBalancing
        \/ /\ status = "panicked"
           /\ BadNumaRanges(part.cpu1) \/ BadNumaRanges(part.cpu2)

\* a migration that matches neither cpu of the Waking state is still
\* unblock placement
C4_Witness ==
    /\ MigrateClassified
    /\ contains_key(process_state, part.pid)
    /\ process_state[part.pid] = Waking(0, 0)
    /\ part.cpu1 = 1 /\ part.cpu2 = 1
    /\ legend_group = "on-socket<br>unblock placement"

\* C5 (as claimed): decoding sched_wakeup_new aborts the scan unless the
\* pid had a Waking state when the line was read, a pid without entry
\* included; with a Waking state the pid becomes Woken.
C5_WakeupNewNeedsWaking ==
    part.event_type = "sched_wakeup_new" =>
        IF contains_key(before, part.pid) /\ before[part.pid][1] = "Waking"
        THEN status = "yielded" /\ process_state[part.pid] = Woken
        ELSE status = "panicked"

\* the cause families a migration of pid p can get under table m
FamilyOf(m, p) ==
    IF ~contains_key(m, p) THEN {NoLabel}
    ELSE CASE m[p][1] = "Waking" -> UnblockPlacement
           [] m[p][1] = "Woken" -> LoadBalancing
           [] m[p][1] = "Numa" -> NumaBalancing

\* C6: neither the decoding of migrate_task and its classification nor the
\* end of the loop iteration changes the WakeState table, and the family of
\* a classified migration depends on the table entry of its pid alone; so
\* consecutive migrations of a pid get the same family, and a Numa intent
\* survives the migration that matches it.
C6_MigrateKeepsTable ==
    /\ [](MigrateClassified => legend_group \in FamilyOf(process_state, part.pid))
    /\ [][part'.event_type \in {"sched_migrate_task", ""}
             => process_state' = process_state]_vars

\* a migration that matches the Numa intent of its pid was classified, and
\* the intent is still in the table
C6_Witness ==
    /\ MigrateClassified
    /\ lines = MaxLines - 2
    /\ contains_key(process_state, part.pid)
    /\ process_state[part.pid] = Numa(part.cpu1, part.cpu2)
    /\ legend_group = "numa balancing"

\* the state a line of a kind leaves for the pids it names
TagLeftBy(kind) ==
    CASE kind = "waking" -> "Waking"
      [] kind = "wakeup" -> "Woken"
      [] kind = "numa" -> "Numa"

EffectOf(p, pid) ==
    CASE p.event_type = "sched_waking" -> Waking(p.cpu, p.cpu1)
      [] p.event_type = "sched_process_fork" -> Waking(p.cpu, p.cpu)
      [] p.event_type \in {"sched_wakeup", "sched_wakeup_new"} -> Woken
      [] p.event_type = "sched_move_numa" -> Numa(p.cpu1, p.cpu2)
      [] p.event_type = "sched_swap_numa" ->
           IF pid = p.pid2 THEN Numa(p.cpu2, p.cpu1) ELSE Numa(p.cpu1, p.cpu2)

\* C7: the table is a map with one state per pid, and while the scan has
\* not aborted in sched_wakeup_new the state of every pid is the one the
\* last wake/fork/numa line naming it wrote: its kind for every pid, and
\* the exact value for the pids named by the line just decoded.
C7_LastWriteWins ==
    ~(status = "panicked" /\ part.event_type = "sched_wakeup_new") =>
        \A p \in Pids :
            last_relevant[p] # "none" =>
                /\ contains_key(process_state, p)
                /\ process_state[p][1] = TagLeftBy(last_relevant[p])
                /\ (status = "yielded" /\ p \in Named(part))
                      => process_state[p] = EffectOf(part, p)

\* swap_numa names a pid that was Waking: only the Numa state is left
C7_Witness ==
    /\ status = "yielded"
    /\ part.event_type = "sched_swap_numa"
    /\ part.pid # part.pid2
    /\ contains_key(before, part.pid)
    /\ before[part.pid][1] = "Waking"
    /\ process_state[part.pid] = Numa(part.cpu1, part.cpu2)

\* C8: the table is empty when the scan starts, and a pid has an entry iff
\* a line read so far named it as the target of waking, wakeup or
\* wakeup_new, as the child of process_fork, or as a pid of swap_numa or
\* move_numa.
C8_EntryIffNamed ==
    /\ (status = "scanning" /\ lines = MaxLines) => process_state = HashMapNew
    /\ \A p \in Pids : contains_key(process_state, p) <=> last_relevant[p] # "none"

\* the exit of a pid that has an entry was decoded; another pid has none
C8_Witness ==
    /\ status = "yielded"
    /\ part.event_type = "sched_process_exit"
    /\ contains_key(process_state, part.pid)
    /\ \E q \in Pids : ~contains_key(process_state, q)

\* C9: decoding sched_waking of pid p with target cpu t on a line of
\* header cpu c never aborts and leaves p in state Waking(c, t).
C9_WakingSetsState ==
    part.event_type = "sched_waking" =>
        /\ status = "yielded"
        /\ process_state[part.pid] = Waking(part.cpu, part.cpu1)

\* the pid had a Numa state before, and c differs from t
C9_Witness ==
    /\ status = "yielded"
    /\ part.event_type = "sched_waking"
    /\ part.cpu # part.cpu1
    /\ contains_key(before, part.pid)
    /\ before[part.pid][1] = "Numa"
    /\ process_state[part.pid] = Waking(part.cpu, part.cpu1)

\* C10: decoding sched_wakeup of pid p reports prev_cpu = origin when p was
\* in state Waking(origin, target), reports no prev_cpu when p had no entry
\* or was Woken or Numa, and leaves p Woken in every case.
C10_WakeupPrevCpu ==
    part.event_type = "sched_wakeup" =>
        /\ status = "yielded"
        /\ action.hint = IF contains_key(before, part.pid) /\ before[part.pid][1] = "Waking"
                         THEN Some(before[part.pid][2])
                         ELSE None
        /\ process_state[part.pid] = Woken

\* the pid was Waking with origin different from target
C10_Witness ==
    /\ status = "yielded"
    /\ part.event_type = "sched_wakeup"
    /\ contains_key(before, part.pid)
    /\ before[part.pid] = Waking(1, 0)
    /\ action.hint = Some(1)
    /\ process_state[part.pid] = Woken

\* C11: decoding sched_process_fork on a line of header cpu c never aborts
\* and leaves the child pid in state Waking(c, c) whatever state it had;
\* the entry of the forking pid, a task other than its child, is as it was
\* before the line (present with the same state, or absent).
C11_ForkSeedsChild ==
    part.event_type = "sched_process_fork" =>
        /\ status = "yielded"
        /\ process_state[part.pid2] = Waking(part.cpu, part.cpu)
        /\ part.pid # part.pid2 =>
              /\ contains_key(process_state, part.pid) <=> contains_key(before, part.pid)
              /\ contains_key(before, part.pid) =>
                    process_state[part.pid] = before[part.pid]

\* parent and child both had a Numa state, the child's is replaced
C11_Witness ==
    /\ status = "yielded"
    /\ part.event_type = "sched_process_fork"
    /\ part.pid # part.pid2
    /\ part.cpu = 1
    /\ contains_key(before, part.pid)
    /\ contains_key(before, part.pid2)
    /\ before[part.pid2][1] = "Numa"
    /\ process_state[part.pid][1] = "Numa"
    /\ process_state[part.pid2] = Waking(1, 1)

\* C12: decoding sched_swap_numa or sched_move_numa never aborts and
\* leaves the source pid in state Numa(src_cpu, dst_cpu), the cpus of the
\* line, whatever state it had.
C12_NumaSetsSource ==
    part.event_type \in {"sched_swap_numa", "sched_move_numa"} =>
        /\ status = "yielded"
        /\ process_state[part.pid] = Numa(part.cpu1, part.cpu2)

\* the moved pid was Waking before the move_numa line
C12_Witness ==
    /\ status = "yielded"
    /\ part.event_type = "sched_move_numa"
    /\ contains_key(before, part.pid)
    /\ before[part.pid][1] = "Waking"
    /\ process_state[part.pid] = Numa(part.cpu1, part.cpu2)
    /\ part.cpu1 # part.cpu2

\* the table after line p is decoded on table m
ApplyEffect(m, p) ==
    [q \in (DOMAIN m) \cup Named(p) |-> IF q \in Named(p) THEN EffectOf(p, q) ELSE m[q]]

\* C14: the table returned with an Action is the table of the previous
\* call with the wake-state effect of the line of this Action applied (so,
\* from the empty table on, the effects of all Actions so far in input
\* order), and it does not change while the loop body holds the Action:
\* the next change is made by the following call of next_action.
C14_SnapshotIsCurrent ==
    /\ [](status = "yielded" => process_state = ApplyEffect(before, part))
    /\ [][status = "scanning" => before' = process_state]_vars
    /\ [][status = "yielded" => process_state' = process_state]_vars

\* the second Action changed an entry the first one had written, and the
\* loop body holds the updated table
C14_Witness ==
    /\ status = "yielded"
    /\ lines = MaxLines - 2
    /\ contains_key(before, part.pid)
    /\ part.event_type = "sched_wakeup"
    /\ before[part.pid][1] = "Waking"
    /\ process_state = ApplyEffect(before, part)
    /\ process_state # before

\* C18: a line with an unsupported event name yields an Action with the
\* NotSupported event, never aborts, leaves the table as it was, and the
\* loop goes on to the next call of next_action.
C18_UnsupportedIsSoft ==
    /\ [](part.event_type = "sched_unknown" =>
             /\ status = "yielded"
             /\ action.event_type = "NotSupported"
             /\ process_state = before)
    /\ [][part.event_type = "sched_unknown" =>
             /\ status' = "scanning"
             /\ process_state' = process_state
             /\ lines' = lines]_vars

\* an unsupported line was read as the second line, with a task tracked
C18_Witness ==
    /\ status = "yielded"
    /\ part.event_type = "sched_unknown"
    /\ action.event_type = "NotSupported"
    /\ lines = MaxLines - 2
    /\ process_state # HashMapNew

OnSocket == {"on-socket<br>unblock placement", "on-socket<br>load balancing"}
OffSocket == {"off-socket<br>unblock placement", "off-socket<br>load balancing"}

\* cpu lies in some range of socket s
InSocket(cpu, s) ==
    \E r \in 1..Len(numa_node_ranges[s]) :
        numa_node_ranges[s][r][1] <= cpu /\ cpu <= numa_node_ranges[s][r][2]

SameSocket(a, b) == \E s \in 1..Len(numa_node_ranges) : InSocket(a, s) /\ InSocket(b, s)

\* C13: a classified migration of the unblock placement or load balancing
\* family has the on-socket label exactly when orig_cpu and dest_cpu lie in
\* ranges of one socket, the same range or two of them, and the off-socket
\* label exactly when they lie in ranges of different sockets.
C13_SocketVariant ==
    (MigrateClassified /\ legend_group \in UnblockPlacement \cup LoadBalancing) =>
        /\ legend_group \in OnSocket <=> SameSocket(part.cpu1, part.cpu2)
        /\ legend_group \in OffSocket <=>
              /\ InTopology(part.cpu1) /\ InTopology(part.cpu2)
              /\ ~SameSocket(part.cpu1, part.cpu2)

\* a migration between the two ranges of socket 0 is on-socket
C13_Witness ==
    /\ MigrateClassified
    /\ part.cpu1 = 0 /\ part.cpu2 = 3
    /\ get_socket_order(part.cpu1) # get_socket_order(part.cpu2)
    /\ legend_group = "on-socket<br>load balancing"

\* a call of next_action has just read a line
LineRead == status = "scanning" /\ lines' < lines /\ item'.kind = "Ok"

\* C15 (as claimed): next_action yields an Action for every line after the
\* header with more than two tokens and skips, without aborting, every
\* line with fewer than three.
C15_EveryLongLineYields ==
    [][LineRead =>
          IF Len(item'.line) > 2 THEN status' = "yielded" ELSE status' = "scanning"]_vars

\* C15 (amended): next_action hands every line after the header with more
\* than two tokens to get_action, which yields an Action for it or aborts
\* the scan, and it skips every line with fewer than three tokens: no
\* Action, no abort, the loop reads on.
C15_LongDecodedShortSkipped ==
    [][LineRead =>
          IF Len(item'.line) > 2
          THEN /\ part' = item'.line
               /\ \/ status' = "yielded" /\ action' = get_action_text(part').action
                  \/ status' = "panicked" /\ get_action_text(part').panicked
          ELSE status' = "scanning" /\ action' = NoTextAction]_vars

\* a line of two tokens was skipped after the header was accepted
C15_Witness ==
    /\ status = "scanning"
    /\ cpu_count # None
    /\ item = OkItem(<< <<"a">>, <<"b">> >>)
    /\ lines > 0

\* the first token has the form cpus=<N>
IsCpusHeader(t) ==
    /\ Len(t) >= 2
    /\ t[1] = "cpus="
    /\ \A i \in 2..Len(t) : IsDigit(t[i])

\* C16 (as claimed): when the first line is absent or its first token is
\* not of the form cpus=<N>, TraceParser::new aborts, and no Action is
\* produced without a parser.
C16_BadHeaderAborts ==
    /\ [][status = "opening" =>
             (~(item'.kind = "Ok" /\ Len(item'.line) > 0 /\ IsCpusHeader(item'.line[1]))
                 => status' = "panicked")]_vars
    /\ [](cpu_count = None => status \in {"opening", "panicked"})

\* C17 (as claimed): next_action returns None only at the real end of the
\* input, never while lines remain.
C17_EndOnlyAtEnd ==
    status = "eof" => lines = 0

\* C19 (as claimed): for every line "<command>-<pid> [<cpu>] <ts>: <event>:"
\* whose command has any number of words, with or without '-', get_action
\* returns that pid and that cpu.
C19_PidCpuExact ==
    \A c \in Commands, p \in Pids, n \in Cpus :
        (cpu_count # None /\ item = OkItem(EventLine(c, p, n, "sched_unknown", <<>>))) =>
            /\ status = "yielded"
            /\ action.pid = p
            /\ action.cpu = n

\* a command as written: its words separated by one space
Written(command) == join(command, " ")

\* C20 (as claimed): decoding sched_switch returns the pid and the command
\* of the old and of the new task as written, whether or not the commands
\* contain whitespace.
C20_SwitchTasksExact ==
    \A x \in SwitchCommands \X Pids \X SwitchCommands \X Pids :
        (cpu_count # None
            /\ item = OkItem(EventLine(<< <<"a">> >>, 1, 0, "sched_switch",
                                       SwitchBody(x[1], x[2], x[3], x[4])))) =>
            /\ status = "yielded"
            /\ action.event.old_base = [command |-> Written(x[1]), pid |-> x[2]]
            /\ action.event.new_base = [command |-> Written(x[3]), pid |-> x[4]]

\* the 0-based ids of all declared ranges, and declaration order on them
Declared ==
    {sr \in (0..1) \X (0..1) :
        /\ sr[1] < Len(numa_node_ranges)
        /\ sr[2] < Len(numa_node_ranges[sr[1] + 1])}

\* the declared range with 0-based ids sr holds cpu
Holds(sr, cpu) ==
    /\ sr \in Declared
    /\ numa_node_ranges[sr[1] + 1][sr[2] + 1][1] <= cpu
    /\ cpu <= numa_node_ranges[sr[1] + 1][sr[2] + 1][2]

DeclaredBefore(a, b) == a[1] < b[1] \/ (a[1] = b[1] /\ a[2] < b[2])
InSomeRange(cpu) == \E sr \in Declared : Holds(sr, cpu)

\* the table has been built with socket_order set
Grouped == status = "scanning" /\ config.graph.socket_order

\* C22: get_socket_order(cpu) is the (socket_id, range_id) of the first
\* declared range, in declaration order, that holds cpu: it has a result
\* for every cpu inside some range, and the lookup is fatal for every cpu
\* inside none, so building the socket-ordered table aborts exactly when a
\* cpu of the machine is in no range.
C22_FirstDeclaredRange ==
    status # "layout" =>
        /\ \A cpu \in 0..(TopCpu + 1) :
              IF InSomeRange(cpu)
              THEN /\ ~BadNumaRanges(cpu)
                   /\ LET found == get_socket_order(cpu)
                      IN  /\ Holds(found, cpu)
                          /\ \A sr \in Declared :
                                DeclaredBefore(sr, found) => ~Holds(sr, cpu)
              ELSE BadNumaRanges(cpu)
        /\ config.graph.socket_order =>
              (status = "panicked" <=>
                  \E cpu \in 0..(config.machine.cpus - 1) : ~InSomeRange(cpu))

\* the table was built for a machine whose cpu 1 lies in the second range
\* of socket 0 and in the first of socket 1, and cpu 1 got the position of
\* the former
C22_Witness ==
    /\ Grouped
    /\ config.machine.cores_per_socket = 2
    /\ config.machine.threads_per_core = 1
    /\ Holds(<<0, 1>>, 1) /\ Holds(<<1, 0>>, 1) /\ ~Holds(<<0, 0>>, 1)
    /\ contains_key(y_axis, 1)
    /\ y_axis[1] = 3

\* the ranges of the machine are pairwise disjoint and hold exactly the
\* cpu ids 0..cpus
DisjointCover ==
    /\ \A cpu \in 0..(TopCpu + 1) :
          InSomeRange(cpu) <=> cpu < config.machine.cpus
    /\ \A a, b \in Declared, cpu \in 0..TopCpu :
          (Holds(a, cpu) /\ Holds(b, cpu)) => a = b

\* C23 (as claimed): with socket grouping on, for every machine whose
\* ranges are disjoint and cover 0..cpu_count, the table maps the cpu ids
\* 0..cpu_count one-to-one onto the positions 0..cpu_count.
C23_LayoutBijection ==
    (Grouped /\ DisjointCover /\ cpu_count = Some(config.machine.cpus)) =>
        /\ DOMAIN y_axis = 0..(cpu_count[1] - 1)
        /\ {y_axis[cpu] : cpu \in DOMAIN y_axis} = 0..(cpu_count[1] - 1)
        /\ \A a, b \in DOMAIN y_axis : y_axis[a] = y_axis[b] => a = b

\* C24 (as claimed): once built, the table has exactly one entry for each
\* cpu id of 0..cpu_count, cpu_count being the header's number, with
\* grouping off (the identity) and on, so that every cpu id below
\* cpu_count can be looked up.
C24_OneEntryPerCpu ==
    (status = "scanning") =>
        /\ DOMAIN y_axis = 0..(cpu_count[1] - 1)
        /\ ~config.graph.socket_order => \A cpu \in DOMAIN y_axis : y_axis[cpu] = cpu

\* the cpu ids a line refers to: its own cpu and those of its body
CpusNamed(p) ==
    {p.cpu} \cup
    CASE p.event_type \in {"sched_waking", "sched_wakeup", "sched_wakeup_new",
                           "sched_wake_idle_without_ipi"} -> {p.cpu1}
      [] p.event_type \in {"sched_migrate_task", "sched_swap_numa", "sched_stick_numa",
                           "sched_move_numa"} -> {p.cpu1, p.cpu2}
      [] OTHER -> {}

\* next_action has returned for a line, or the scan aborted on it
Returned == part # NoPart /\ status \in {"yielded", "panicked"}

\* C25 (as claimed): every event that refers to a cpu outside every
\* declared range, as its own cpu, waking target, migrate origin or
\* destination or NUMA source or destination, aborts the scan.
C25_OutsideAborts ==
    (Returned /\ \E cpu \in CpusNamed(part) : ~InTopology(cpu)) => status = "panicked"

\* C26 (as claimed): a line decoded against two independent trackers,
\* whatever each held before, gives the same Action in every field, the
\* prev_cpu of a wakeup and the state of a migrate_task included; only the
\* tables may differ.
C26_SameAction ==
    (status \in {"yielded", "panicked"} /\ twin # NoTwin) =>
        /\ twin.panicked <=> status = "panicked"
        /\ twin.action = action

\* C27: input files are processed one after the other, each from a fresh,
\* empty table: what an earlier file left never shows in a later one. In
\* every file a pid has an entry iff a line of that file named it, the
\* entry is the state its last such line left, and a migration is
\* classified by that state, as if the file were processed alone.
C27_FilesIndependent ==
    /\ (status = "scanning" /\ lines = MaxLines) => process_state = HashMapNew
    /\ \A p \in Pids :
          /\ contains_key(process_state, p) <=> last_relevant[p] # "none"
          /\ contains_key(process_state, p) =>
                 process_state[p][1] = TagLeftBy(last_relevant[p])
    /\ MigrateClassified =>
          /\ last_relevant[part.pid] = "waking" => legend_group \in UnblockPlacement
          /\ last_relevant[part.pid] = "wakeup" => legend_group \in LoadBalancing
          /\ last_relevant[part.pid] = "none" => legend_group = NoLabel

\* the first line of the second file is a migration, and it has no label
C27_Witness ==
    /\ file = MaxFiles
    /\ MigrateClassified
    /\ lines = MaxLines - 1
    /\ process_state = HashMapNew
    /\ legend_group = NoLabel

\* C28 (as claimed): every call of next_action consumes input, so on a
\* finite input the calls come to None, and once next_action has returned
\* None no later call returns an Action.
C28_NoneIsFinal ==
    [][status = "eof" => status' # "yielded"]_vars

\* C30 (as claimed): for every migrate_task the cause that the state field
\* of the event implies is the one classify_migrate_event labels it with:
\* Waking with unblock placement, Woken with load balancing, Numa with
\* numa balancing, also for a pid without entry and for a Numa state whose
\* cpu pair the migration does not match.
C30_StateAgreesWithLabel ==
    MigrateClassified =>
        /\ action.state[1] = "Waking" <=> legend_group \in UnblockPlacement
        /\ action.state[1] = "Woken" <=> legend_group \in LoadBalancing
        /\ action.state[1] = "Numa" <=> legend_group \in NumaBalancing

\* a call of next_action returns an Action
Yields == lines' = lines - 1 /\ status' # "eof"

C21_GarbledNumberAborts ==
    [][/\ status # "panicked"
       /\ (status = "scanning" /\ lines' = lines - 1 /\ part' \in KeyedLines.garbled)
              => (status' = "panicked" /\ action' = NoTextAction)]_vars

\* the scan has aborted on a migration whose header is well formed and
\* whose body holds the garbled token
C21_Witness ==
    /\ status = "panicked"
    /\ cpu_count # None
    /\ part \in KeyedLines.garbled
    /\ SubSeq(part, 1, 4) = SubSeq(EventLine(<< <<"a">> >>, 1, 1, "sched_migrate_task", <<>>), 1, 4)
    /\ action = NoTextAction

\* the entry of pid q is the same in tables m and n: absent in both, or
\* present with the same state
SameEntry(m, n, q) ==
    /\ contains_key(m, q) <=> contains_key(n, q)
    /\ contains_key(m, q) => m[q] = n[q]

\* C31: a line changes the WakeState entries of no pid but those it names
\* as the target of waking, wakeup or wakeup_new, as the child of
\* process_fork or as a task of swap_numa or move_numa; a line of any
\* other event (switch, migrate_task, wake_idle_without_ipi, process
\* free, exec, wait and exit, stick_numa, unsupported) leaves the table as
\* it was when the line was read.
C31_FrameEffect ==
    /\ \A q \in (DOMAIN before \cup DOMAIN process_state) \ Named(part) :
           SameEntry(before, process_state, q)
    /\ part.event_type \notin {"sched_waking", "sched_wakeup", "sched_wakeup_new",
                                "sched_process_fork", "sched_swap_numa", "sched_move_numa"}
          => process_state = before

\* stick_numa of a task that was Waking has been decoded
C31_Witness ==
    /\ status = "yielded"
    /\ part.event_type = "sched_stick_numa"
    /\ contains_key(process_state, part.pid)
    /\ process_state[part.pid][1] = "Waking"
    /\ process_state = before

\* C32: sched_swap_numa leaves the destination pid in state
\* Numa(dst_cpu, src_cpu), the reverse of the pair of the source pid, and a
\* migrate_task of the destination pid from dst_cpu to src_cpu read next
\* is decoded with that state and, when it is classified, labelled numa
\* balancing.
C32_SwapReversesForDest ==
    (part.event_type = "sched_swap_numa" /\ status = "yielded") =>
        LET m == Line("sched_migrate_task", 0, part.pid2, 0, part.cpu2, part.cpu1)
            r == get_action(m, process_state)
            c == classify_migrate_event(r.event, r.process_state)
        IN  /\ process_state[part.pid2] = Numa(part.cpu2, part.cpu1)
            /\ process_state[part.pid] = Numa(part.cpu1, part.cpu2)
            /\ ~r.panicked
            /\ r.event.state = Numa(part.cpu2, part.cpu1)
            /\ ~c.panicked => c.legend_group = "numa balancing"
            /\ (InTopology(part.cpu1) /\ InTopology(part.cpu2)) => ~c.panicked

\* a swap between two cpus of the topology, the destination task Woken
\* before it
C32_Witness ==
    /\ status = "yielded"
    /\ part.event_type = "sched_swap_numa"
    /\ InTopology(part.cpu1)
    /\ InTopology(part.cpu2)
    /\ contains_key(before, part.pid2)
    /\ before[part.pid2] = Woken
    /\ process_state[part.pid2] = Numa(part.cpu2, part.cpu1)

\* C33: no line removes a WakeState entry, the exit and the free of the
\* pid included: every pid that had an entry when a line was read has one
\* after it, exit and free leave the table as it was, and a migrate_task
\* of the exited or freed pid read next gets the cause family of the state
\* the pid had.
C33_NeverShrinks ==
    /\ \A q \in DOMAIN before : contains_key(process_state, q)
    /\ (part.event_type \in {"sched_process_exit", "sched_process_free"}
           /\ status = "yielded") =>
          LET m == Line("sched_migrate_task", 0, part.pid, 0, 0, 1)
              r == get_action(m, process_state)
              c == classify_migrate_event(r.event, r.process_state)
          IN  /\ process_state = before
              /\ ~r.panicked /\ ~c.panicked
              /\ c.legend_group \in FamilyOf(before, part.pid)

\* the free of a pid whose state is Numa has been decoded
C33_Witness ==
    /\ status = "yielded"
    /\ part.event_type = "sched_process_free"
    /\ contains_key(before, part.pid)
    /\ before[part.pid][1] = "Numa"
    /\ contains_key(process_state, part.pid)

\* C34: sched_wakeup_new that does not abort reports as parent_cpu the
\* target cpu of the Waking state its pid had, and the CPU of the event
\* itself when the pid had no entry; so a wakeup_new of the child read
\* next after process_fork on header cpu c reports parent_cpu = c.
C34_ParentCpu ==
    /\ (part.event_type = "sched_wakeup_new" /\ status = "yielded") =>
          action.hint = Some(IF contains_key(before, part.pid)
                             THEN before[part.pid][3]
                             ELSE part.cpu1)
    /\ (part.event_type = "sched_process_fork" /\ status = "yielded") =>
          \A p \in WakeupNewLines :
              p.pid = part.pid2 =>
                  LET r == get_action(p, process_state)
                  IN  ~r.panicked /\ r.event.hint = Some(part.cpu)

\* wakeup_new of a pid that was Waking from one cpu to another, on a third
C34_Witness ==
    /\ status = "yielded"
    /\ part.event_type = "sched_wakeup_new"
    /\ contains_key(before, part.pid)
    /\ before[part.pid][2] # before[part.pid][3]
    /\ action.hint = Some(before[part.pid][3])
    /\ part.cpu1 \notin {before[part.pid][2], before[part.pid][3]}

\* C35: the table follows every line read, shown or not: after a line
\* that find_sleep consumed or the custom range skipped, as after a line
\* that reached the match of draw_traces, every pid the line names has the
\* state the line writes, the state of every pid is of the kind its last
\* wake, fork or numa line left, and a migration that is shown gets the
\* cause family of the state its pid has then.
C35_TableFollowsEveryLine ==
    /\ \A q \in Pids :
           last_relevant[q] # "none" =>
               /\ contains_key(process_state, q)
               /\ process_state[q][1] = TagLeftBy(last_relevant[q])
    /\ (part.event_type # "" /\ status # "panicked") =>
           \A q \in Named(part) :
               contains_key(process_state, q) /\ process_state[q] = EffectOf(part, q)
    /\ (status = "yielded" /\ part.event_type = "sched_migrate_task") =>
           legend_group \in FamilyOf(process_state, part.pid)

\* without the search for sleep, the second line is a migration in the
\* range, labelled as unblock placement: the waking it is classified from
\* is the first line, which lies before min
C35_Witness ==
    /\ ~config.graph.sleep
    /\ config.graph.custom_range
    /\ status = "yielded"
    /\ lines = MaxLines - 1
    /\ part.event_type = "sched_migrate_task"
    /\ action.timestamp - action.start_time[1] = config.graph.min
    /\ legend_group \in UnblockPlacement

\* C36: when the loop of draw_traces has ended and the switch slices are
\* about to be drawn, no switch Action is left in boundary_events: all of
\* them have been moved to switch_events.
C36_BoundaryAllMoved ==
    status = "eof" => boundary_events = HashMapNew

====
